---------------------------- MODULE Spec2Model ----------------------------
(***************************************************************************)
(* pdf_text: layout analysis of one page.                                  *)
(*                                                                         *)
(* The model follows src/src/node.rs (tree build, table detector),         *)
(* src/src/node/gap.rs, src/src/node/line.rs, src/src/text.rs              *)
(* (word assembly), src/src/classify.rs and src/src/flow.rs (flow          *)
(* emitter).                                                               *)
(*                                                                         *)
(* Numbers.  The program computes in f32.  The model computes in exact     *)
(* integers: every length is a whole number of 1/Unit device units, and    *)
(* every comparison of the source that involves 0.5*x, an average or a     *)
(* fractional constant is cross-multiplied so that it stays exact.         *)
(* Split positions (gap midpoints 0.5*(a+b)) are kept doubled.             *)
(***************************************************************************)
EXTENDS Integers, Sequences, FiniteSets, TLC

\* Length units of the model per device unit.
Unit == 100

\* ------------------------------------------------------------------ util

Max2(a, b) == IF a >= b THEN a ELSE b
Min2(a, b) == IF a <= b THEN a ELSE b
MaxOf(S) == CHOOSE m \in S : \A o \in S : o <= m
MinOf(S) == CHOOSE m \in S : \A o \in S : m <= o

RECURSIVE SumSeq(_)
SumSeq(s) == IF s = <<>> THEN 0 ELSE Head(s) + SumSeq(Tail(s))

RECURSIVE Flatten(_)
Flatten(ss) == IF ss = <<>> THEN <<>> ELSE Head(ss) \o Flatten(Tail(ss))

Range(s) == {s[i] : i \in DOMAIN s}

\* The elements of s at the positions of S, in order.
Pick(s, S) == Flatten([i \in 1..Len(s) |-> IF i \in S THEN <<s[i]>> ELSE <<>>])

\* ------------------------------------------------------------- geometry

\* RectF, by its four edges.
Rect(x0, x1, y0, y1) == [min_x |-> x0, max_x |-> x1, min_y |-> y0, max_y |-> y1]
Height(r) == r.max_y - r.min_y
union_rect(a, b) == Rect(Min2(a.min_x, b.min_x), Max2(a.max_x, b.max_x),
                         Min2(a.min_y, b.min_y), Max2(a.max_y, b.max_y))
RECURSIVE UnionAll(_)
UnionAll(rs) == IF Len(rs) = 1 THEN rs[1] ELSE union_rect(UnionAll(SubSeq(rs, 1, Len(rs) - 1)), rs[Len(rs)])

\* |r| (r.min_x(), r.max_x())  and  |r| (r.min_y(), r.max_y())
Lo(b, axis) == IF axis = "x" THEN b.rect.min_x ELSE b.rect.min_y
Hi(b, axis) == IF axis = "x" THEN b.rect.max_x ELSE b.rect.max_y

\* sort_unstable_by on one key.  The order of elements with equal keys is not
\* specified by the library: tie = "keep" leaves them in their current order,
\* tie = "flip" reverses them.
SortBy(s, axis, tie) ==
    LET n == Len(s)
        before(j, i) == \/ Lo(s[j], axis) < Lo(s[i], axis)
                        \/ /\ Lo(s[j], axis) = Lo(s[i], axis)
                           /\ IF tie = "keep" THEN j < i ELSE j > i
        rank(i) == Cardinality({j \in 1..n : before(j, i)})
    IN [k \in 1..n |-> s[CHOOSE i \in 1..n : rank(i) = k - 1]]

sort_x(boxes, tie) == SortBy(boxes, "x", tie)
sort_y(boxes, tie) == SortBy(boxes, "y", tie)

\* ------------------------------------------------------------------ gaps

\* last_max when the k-th box is visited: the largest end of the boxes before it.
LastMax(boxes, axis, k) == MaxOf({Hi(boxes[j], axis) : j \in 1..(k - 1)})

\* gap_list: (last_max, min, idx+1) for every box that starts beyond last_max.
gap_list(boxes, axis) ==
    LET at == SelectSeq([k \in 1..(Len(boxes) - 1) |-> k + 1],
                        LAMBDA k : Lo(boxes[k], axis) > LastMax(boxes, axis, k))
    IN [i \in 1..Len(at) |-> [a |-> LastMax(boxes, axis, at[i]),
                              b |-> Lo(boxes[at[i]], axis),
                              idx |-> at[i] - 1]]

\* A gaps that reports only the gaps larger than the threshold.
gaps_strict(tn, td, boxes, axis) ==
    LET at == SelectSeq([k \in 1..(Len(boxes) - 1) |-> k + 1],
                        LAMBDA k : (Lo(boxes[k], axis) - LastMax(boxes, axis, k)) * td > tn)
    IN [i \in 1..Len(at) |-> LastMax(boxes, axis, at[i]) + Lo(boxes[at[i]], axis)]

\* gaps: the midpoint (doubled) of every gap of size >= threshold = tn/td.
gaps(tn, td, boxes, axis) ==
    LET at == SelectSeq([k \in 1..(Len(boxes) - 1) |-> k + 1],
                        LAMBDA k : (Lo(boxes[k], axis) - LastMax(boxes, axis, k)) * td >= tn)
    IN [i \in 1..Len(at) |-> LastMax(boxes, axis, at[i]) + Lo(boxes[at[i]], axis)]

\* max_gap: the size of the largest gap, if there is any gap.
max_gap(boxes, axis) ==
    LET largest(gl) ==
            IF gl = <<>> THEN [some |-> FALSE, size |-> 0]
            ELSE [some |-> TRUE, size |-> MaxOf({gl[i].b - gl[i].a : i \in 1..Len(gl)})]
    IN largest(gap_list(boxes, axis))

dist_x(boxes) == max_gap(boxes, "x")
dist_y(boxes) == max_gap(boxes, "y")

\* A SplitBy that yields a chunk only when it holds a box.
RECURSIVE split_by_nonempty(_, _, _)
split_by_nonempty(list, at, axis) ==
    IF at = <<>> THEN (IF list = <<>> THEN <<>> ELSE <<list>>)
    ELSE LET hits == {i \in 1..Len(list) : 2 * Lo(list[i], axis) > Head(at)}
             idx == IF hits = {} THEN Len(list) ELSE MinOf(hits) - 1
         IN (IF idx = 0 THEN <<>> ELSE <<SubSeq(list, 1, idx)>>)
            \o split_by_nonempty(SubSeq(list, idx + 1, Len(list)), Tail(at), axis)

\* A SplitBy that looks for the first box whose key is below the point.
RECURSIVE split_by_below(_, _, _)
split_by_below(list, at, axis) ==
    IF at = <<>> THEN <<list>>
    ELSE LET hits == {i \in 1..Len(list) : 2 * Lo(list[i], axis) < Head(at)}
             idx == IF hits = {} THEN Len(list) ELSE MinOf(hits) - 1
         IN <<SubSeq(list, 1, idx)>> \o split_by_below(SubSeq(list, idx + 1, Len(list)), Tail(at), axis)

\* SplitBy: one chunk per split point (the boxes up to the first one whose key
\* exceeds the point), then the rest.  The points are doubled midpoints.
RECURSIVE split_by(_, _, _)
split_by(list, at, axis) ==
    IF at = <<>> THEN <<list>>
    ELSE LET hits == {i \in 1..Len(list) : 2 * Lo(list[i], axis) > Head(at)}
             idx == IF hits = {} THEN Len(list) ELSE MinOf(hits) - 1
         IN <<SubSeq(list, 1, idx)>> \o split_by(SubSeq(list, idx + 1, Len(list)), Tail(at), axis)

\* ----------------------------------------------------------------- nodes

NoTable == [rows |-> 0, cols |-> 0, cells |-> <<>>, oob |-> FALSE]

\* Node::Final, Node::Grid, Node::Table.  One record shape for the three variants.
Final(ix) == [type |-> "Final", indices |-> ix, x |-> <<>>, y |-> <<>>,
              cells |-> <<>>, tag |-> "Singleton", table |-> NoTable]
Grid(xs, ys, cs, t) == [type |-> "Grid", indices |-> <<>>, x |-> xs, y |-> ys,
                        cells |-> cs, tag |-> t, table |-> NoTable]
TableNode(t) == [type |-> "Table", indices |-> <<>>, x |-> <<>>, y |-> <<>>,
                 cells |-> <<>>, tag |-> "Complex", table |-> t]

\* Node::singleton
singleton(boxes) == Final([k \in 1..Len(boxes) |-> boxes[k].index])

\* NodeTag: Singleton < Line < Paragraph < Complex
TagRank(t) == CASE t = "Singleton" -> 0 [] t = "Line" -> 1 [] t = "Paragraph" -> 2 [] OTHER -> 3


\* ----------------------------------------------------------------- Table

\* Table<Vec<usize>> of the table crate, which is not part of the sources.
\* Modelled from the data model of the specification: a dense logical grid of
\* rows x cols positions (rows and columns counted from 0); a cell carries a
\* value and a (rowspan, colspan); set_cell overwrites the region it covers.
\* cells is the log of the writes that lie inside the grid; the cell at a
\* position is the last write covering it.  A write that does not lie inside
\* the grid has no position to go to: it is not stored, and oob records it.
TableEmpty(r, c) == [rows |-> r, cols |-> c, cells |-> <<>>, oob |-> FALSE]

Covers(cell, r, c) == /\ cell.row <= r /\ r < cell.row + cell.rowspan
                      /\ cell.col <= c /\ c < cell.col + cell.colspan

CellAt(t, r, c) ==
    LET S == {k \in 1..Len(t.cells) : Covers(t.cells[k], r, c)}
    IN IF S = {} THEN 0 ELSE MaxOf(S)

InGrid(t, row, col, rowspan, colspan) ==
    row + rowspan <= t.rows /\ col + colspan <= t.cols

set_cell(t, value, row, col, rowspan, colspan) ==
    IF InGrid(t, row, col, rowspan, colspan)
    THEN [t EXCEPT !.cells = Append(@, [value |-> value, row |-> row, col |-> col,
                                        rowspan |-> rowspan, colspan |-> colspan])]
    ELSE [t EXCEPT !.oob = TRUE]

\* get_cell_value_mut: the log position of the cell at (row, col), 0 for None.
get_cell_value_mut(t, row, col) ==
    IF row < t.rows /\ col < t.cols THEN CellAt(t, row, col) ELSE 0

\* values(): the cells that occupy at least one position of the grid.
TableValues(t) ==
    Pick(t.cells, {k \in 1..Len(t.cells) :
                     \E r \in 0..(t.rows - 1), c \in 0..(t.cols - 1) : CellAt(t, r, c) = k})

\* ------------------------------------------------------------------ Span

SpanNew(a, b) == [start |-> Min2(a, b), end |-> Max2(a, b)]
horiz(rect) == SpanNew(rect.min_x, rect.max_x)
vert(rect) == SpanNew(rect.min_y, rect.max_y)
\* Span::intersect and Span::union are Some exactly when the spans touch or overlap.
Overlap(s, o) == s.start <= o.end /\ o.start <= s.end
intersect(s, o) == [start |-> Max2(s.start, o.start), end |-> Min2(s.end, o.end)]
union(s, o) == [start |-> Min2(s.start, o.start), end |-> Max2(s.end, o.end)]

\* ---------------------------------------------------------------- split2

\* The first loop of split2: a line grows while the next box (in y order)
\* intersects the running intersection of the line's vertical spans.
RECURSIVE raw_lines(_, _, _, _)
raw_lines(boxes, k, y, line) ==
    IF k > Len(boxes) THEN <<line>>
    ELSE LET y2 == vert(boxes[k].rect)
         IN IF Overlap(y, y2)
            THEN raw_lines(boxes, k + 1, intersect(y, y2), Append(line, boxes[k]))
            ELSE <<line>> \o raw_lines(boxes, k + 1, y2, <<boxes[k]>>)

\* build_line, the runs: boxes (in x order) whose horizontal spans union.
RECURSIVE line_runs(_, _, _, _)
line_runs(boxes, k, x, items) ==
    IF k > Len(boxes) THEN <<[x |-> x, parts |-> items]>>
    ELSE LET x2 == horiz(boxes[k].rect)
         IN IF Overlap(x, x2)
            THEN line_runs(boxes, k + 1, union(x, x2), Append(items, boxes[k].index))
            ELSE <<[x |-> x, parts |-> items]>> \o line_runs(boxes, k + 1, x2, <<boxes[k].index>>)

\* build_line: (tag, y, line).  Text when the largest gap between adjacent runs
\* is < 0.3 * mean font size, Table when it is not, Unknown with a single run.
build_line(boxes, spans) ==
    LET y == [start |-> MinOf({vert(boxes[k].rect).start : k \in 1..Len(boxes)}),
              end |-> MaxOf({vert(boxes[k].rect).end : k \in 1..Len(boxes)})]
        sumF == SumSeq([k \in 1..Len(boxes) |-> spans[boxes[k].index].font_size])
        tag(rgaps) == IF rgaps = {} THEN "Unknown"
                      ELSE IF 10 * Len(boxes) * MaxOf(rgaps) < 3 * sumF THEN "Text" ELSE "Table"
        of(line) == [tag |-> tag({line[k + 1].x.start - line[k].x.end : k \in 1..(Len(line) - 1)}),
                     y |-> y, line |-> line]
    IN of(line_runs(boxes, 2, horiz(boxes[1].rect), <<boxes[1].index>>))

\* A column inference that makes a column of every run.
RECURSIVE infer_columns_append(_, _)
infer_columns_append(runs, columns) ==
    IF runs = <<>> THEN columns
    ELSE infer_columns_append(Tail(runs), Append(columns, Head(runs).x))

\* Column inference: every column a run intersects is tightened to the
\* intersection; a run that intersects no column becomes a column.
RECURSIVE infer_columns(_, _)
infer_columns(runs, columns) ==
    IF runs = <<>> THEN columns
    ELSE LET tighten(x, found) ==
                 IF found = {} THEN Append(columns, x)
                 ELSE [k \in 1..Len(columns) |->
                          IF k \in found THEN intersect(columns[k], x) ELSE columns[k]]
             of(x) == tighten(x, {k \in 1..Len(columns) : Overlap(columns[k], x)})
         IN infer_columns(Tail(runs), of(Head(runs).x))

\* columns.sort_by_key(|s| s.start): a stable sort.
sort_columns(columns) ==
    LET n == Len(columns)
        before(j, i) == \/ columns[j].start < columns[i].start
                        \/ columns[j].start = columns[i].start /\ j < i
        rank(i) == Cardinality({j \in 1..n : before(j, i)})
    IN [k \in 1..n |-> columns[CHOOSE i \in 1..n : rank(i) = k - 1]]

\* combine: the line joins the previous row when its distance to the previous
\* line is < d_threshold = sumGaps / nGaps and no horizontal ruling (the middle
\* of a cluster (a, b)) lies strictly between them.
combine_with_prev(prev, span, sumGaps, nGaps, hlines) ==
    /\ prev.some
    /\ (span.start - prev.end) * nGaps < sumGaps
    /\ ~ \E h \in 1..Len(hlines) :
           /\ 2 * prev.end < hlines[h][1] + hlines[h][2]
           /\ 2 * span.start > hlines[h][1] + hlines[h][2]

\* The inner loop of the row assignment: the runs of one line.
RECURSIVE place_runs(_, _, _, _, _)
place_runs(table, runs, row, combine, columns) ==
    IF runs = <<>> THEN table
    ELSE LET put(run, first_col, last_col, cell) ==
                 IF cell # 0
                 THEN [table EXCEPT !.cells[cell].value = @ \o run.parts]
                 ELSE set_cell(table, run.parts, row, first_col, 1, (last_col - first_col) + 1)
             at(run, first_col, last_col) ==
                 put(run, first_col, last_col,
                     IF combine THEN get_cell_value_mut(table, row, first_col) ELSE 0)
             in(run, cols) == at(run, MinOf(cols) - 1, MaxOf(cols) - 1)
             of(run) == in(run, {i \in 1..Len(columns) : Overlap(run.x, columns[i])})
         IN place_runs(of(Head(runs)), Tail(runs), row, combine, columns)

\* The row assignment: row starts at 0 and is incremented before every line
\* that is not combined with its predecessor, the first line included.
RECURSIVE place_lines(_, _, _, _, _, _, _, _)
place_lines(table, lines, k, row, prev, sumGaps, columns, hlines) ==
    IF k > Len(lines) THEN table
    ELSE LET at(combine, r) ==
                 place_lines(place_runs(table, lines[k].line, r, combine, columns),
                             lines, k + 1, r, [some |-> TRUE, end |-> lines[k].y.end],
                             sumGaps, columns, hlines)
             of(combine) == at(combine, IF combine THEN row ELSE row + 1)
         IN of(combine_with_prev(prev, lines[k].y, sumGaps, Len(lines) - 1, hlines))

\* One table section: Table::empty(lines.len(), columns.len()), then the rows.
build_table(lines, hlines) ==
    LET sumGaps == SumSeq([k \in 1..(Len(lines) - 1) |-> lines[k + 1].y.start - lines[k].y.end])
        of(columns) == place_lines(TableEmpty(Len(lines), Len(columns)), lines, 1, 0,
                                   [some |-> FALSE, end |-> 0], sumGaps, columns, hlines)
    IN of(sort_columns(infer_columns(Flatten([k \in 1..Len(lines) |-> lines[k].line]), <<>>)))

line_final(l) == Final(Flatten([k \in 1..Len(l.line) |-> l.line[k].parts]))

\* The while loop over the vertical sections: Text lines before a section
\* become Final nodes, a run of Table/Unknown lines up to the next Text line
\* becomes a Table.
RECURSIVE carve(_, _, _)
carve(lines, start, hlines) ==
    LET n == Len(lines)
        finals(upto) == [k \in 1..(upto - start) |-> [y |-> lines[start + k - 1].y,
                                                      node |-> line_final(lines[start + k - 1])]]
        table(sect) == [y |-> [start |-> sect[1].y.start, end |-> sect[Len(sect)].y.end],
                        node |-> TableNode(build_table(sect, hlines))]
        section(table_start, table_end) ==
            finals(table_start) \o <<table(SubSeq(lines, table_start, table_end - 1))>>
                                \o carve(lines, table_end, hlines)
        upto(table_start, texts) ==
            section(table_start, IF texts = {} THEN n + 1 ELSE MinOf(texts))
        from(table_start) ==
            upto(table_start, {k \in (table_start + 1)..n : lines[k].tag = "Text"})
        of(cand) == IF cand = {} THEN finals(n + 1) ELSE from(MinOf(cand))
    IN of({k \in start..n : lines[k].tag \in {"Unknown", "Table"}})

split2(boxes, spans, hlines, tie) ==
    LET wrap(vparts) ==
            IF Len(vparts) > 1
            THEN Grid(<<>>,
                      [k \in 1..(Len(vparts) - 1) |-> vparts[k].y.end + vparts[k + 1].y.start],
                      [k \in 1..Len(vparts) |-> vparts[k].node],
                      "Complex")
            ELSE vparts[1].node
        lines(raw) == [k \in 1..Len(raw) |-> build_line(sort_x(raw[k], tie), spans)]
        of(by) == wrap(carve(lines(raw_lines(by, 2, vert(by[1].rect), <<by[1]>>)), 1, hlines))
    IN of(sort_y(boxes, tie))

\* ------------------------------------------------------ overlapping_lines

Center2Y(b) == b.rect.min_y + b.rect.max_y

\* The boxes from start on whose centre lies more than half the mean height
\* below y_center: r.center().y() > 0.5 * avg_height + y_center, as
\* n * centre2 > sumH + n * y_center2 (centres doubled, n boxes).
ol_hits(boxes, start, yc2, sumH) ==
    {k \in start..Len(boxes) : Len(boxes) * Center2Y(boxes[k]) > sumH + Len(boxes) * yc2}

\* The loop of overlapping_lines on the y-sorted boxes.  A line is closed at
\* the first box whose centre lies more than half the mean height below
\* y_center (n * centre2 > sumH + n * y_center2, centres doubled); the closed
\* line contributes the bottom edge of its bounding box as a split (doubled,
\* like every split position of the model).
RECURSIVE ol_lines(_, _, _, _, _)
ol_lines(boxes, start, yc2, sumH, tie) ==
    LET n == Len(boxes)
        closed(part, end) ==
            <<[node |-> singleton(sort_x(part, tie)), closed |-> TRUE,
               split |-> 2 * UnionAll([k \in 1..Len(part) |-> part[k].rect]).max_y]>>
            \o ol_lines(boxes, end, Center2Y(boxes[end]), sumH, tie)
        at(end) == closed(SubSeq(boxes, start, end - 1), end)
        of(hits) ==
            IF hits = {}
            THEN <<[node |-> singleton(sort_x(SubSeq(boxes, start, n), tie)),
                    closed |-> FALSE, split |-> 0]>>
            ELSE at(MinOf(hits))
    IN of(ol_hits(boxes, start, yc2, sumH))

overlapping_lines(boxes0, tie) ==
    LET wrap(ls) ==
            IF Len(ls) = 1 THEN ls[1].node
            ELSE Grid(<<>>,
                      [k \in 1..(Len(ls) - 1) |-> ls[k].split],
                      [k \in 1..Len(ls) |-> ls[k].node],
                      "Paragraph")
        of(boxes) == wrap(ol_lines(boxes, 1, Center2Y(boxes[1]),
                                   SumSeq([k \in 1..Len(boxes) |-> Height(boxes[k].rect)]), tie))
    IN of(sort_y(boxes0, tie))

\* ------------------------------------------------------------------ split

\* A test of the children that lets Paragraph children pass.
AllAtMostParagraph(cells) ==
    \A k \in 1..Len(cells) : TagRank(cells[k].tag) <= TagRank("Paragraph")

AllAtMostLine(cells) == \A k \in 1..Len(cells) : TagRank(cells[k].tag) <= TagRank("Line")

\* A split that hands every region of two or more boxes to the table detector.
split_table_first(boxes, spans, hlines, tie) ==
    IF Len(boxes) < 2 THEN singleton(boxes) ELSE split2(boxes, spans, hlines, tie)

\* The first part of split, for two or more boxes: the sorts, the largest
\* gaps and the gaps of at least the thresholds.  some: there is a gap on an
\* axis; bx: the boxes as the last sort_x leaves them.
\* x_threshold = max(max_gap / 2, 1.0) = Max2(mg, 2 * Unit) / 2
\* y_threshold = max(max_gap / 2, 0.1) = Max2(5 * mg, Unit) / 10
split_gaps(boxes, tie) ==
    LET sorted(by, bx2, mg) ==
            [some |-> TRUE, bx |-> bx2,
             x |-> gaps(Max2(mg, 2 * Unit), 2, bx2, "x"),
             y |-> gaps(Max2(5 * mg, Unit), 10, by, "y")]
        measured(by, max_x_gap, max_y_gap) ==
            IF ~max_x_gap.some /\ ~max_y_gap.some
            THEN [some |-> FALSE, bx |-> sort_x(by, tie), x |-> <<>>, y |-> <<>>]
            ELSE sorted(by, sort_x(by, tie), Max2(max_x_gap.size, max_y_gap.size))
        in_y(by, max_x_gap) == measured(by, max_x_gap, dist_y(by))
        of(bx) == in_y(sort_y(bx, tie), dist_x(bx))
    IN of(sort_x(boxes, tie))

\* The slices split passes to its recursive calls, in order: the rows, or the
\* cells of every row when there are x gaps.
split_cells(boxes, x_gaps, y_gaps, tie) ==
    LET columns(cs) == [c \in 1..Len(cs) |-> sort_y(cs[c], tie)]
        row_cells(row) ==
            IF Len(x_gaps) > 0 THEN columns(split_by(sort_x(row, tie), x_gaps, "x"))
            ELSE <<row>>
        of(rows) == Flatten([r \in 1..Len(rows) |-> row_cells(rows[r])])
    IN of(split_by(sort_y(boxes, tie), y_gaps, "y"))

RECURSIVE split(_, _, _, _)
split(boxes, spans, hlines, tie) ==
    LET tag(x_gaps, y_gaps, line) ==
            IF Len(y_gaps) = 0 THEN (IF line THEN "Line" ELSE "Complex")
            ELSE IF Len(x_gaps) = 0 THEN (IF line THEN "Paragraph" ELSE "Complex")
            ELSE "Complex"
        grid(x_gaps, y_gaps, cells) ==
            Grid(x_gaps, y_gaps, cells, tag(x_gaps, y_gaps, AllAtMostLine(cells)))
        cells(slices) == [k \in 1..Len(slices) |-> split(slices[k], spans, hlines, tie)]
        divide(bx2, x_gaps, y_gaps) ==
            IF Len(x_gaps) = 0 /\ Len(y_gaps) = 0 THEN overlapping_lines(bx2, tie)
            ELSE IF Len(x_gaps) > 1 /\ Len(y_gaps) > 1 THEN split2(bx2, spans, hlines, tie)
            ELSE grid(x_gaps, y_gaps, cells(split_cells(bx2, x_gaps, y_gaps, tie)))
        of(g) == IF g.some THEN divide(g.bx, g.x, g.y) ELSE singleton(g.bx)
    IN IF Len(boxes) < 2 THEN singleton(boxes) ELSE of(split_gaps(boxes, tie))

\* ------------------------------------------------------------ characters

\* A string is a sequence of characters, each a one-token name: "a", " ",
\* "NL" (line feed), "NBSP" (U+00A0), "LIGFI" (U+FB01), "ACUTE" (U+00B4),
\* "COMB" (U+0301).
Whitespace == {" ", "NL", "TAB", "NBSP"}
Digits == {"0", "1", "2", "3", "4", "5", "6", "7", "8", "9"}

\* char::is_whitespace on every char of a string (true for the empty string)
all_whitespace(txt) == \A k \in 1..Len(txt) : txt[k] \in Whitespace

is_number(txt) == Len(txt) > 0 /\ \A k \in 1..Len(txt) : txt[k] \in Digits

\* span.text: the glyphs' pieces of the text in order (a glyph's piece is
\* text[offset .. next.offset], the last glyph's runs to the end of the text).
SpanText(s) == Flatten([k \in 1..Len(s.chars) |-> s.chars[k].txt])

\* ---------------------------------------------------------------- classify

\* TriCount::count on (fal, tru)
TriCount(fal, tru) ==
    IF fal = 0 /\ tru = 0 THEN "Unknown"
    ELSE IF fal = 0 THEN "True"
    ELSE IF tru = 0 THEN "False"
    ELSE "Maybe"

NoFont == "none"
IsBold(font) == font \in {"Arial-Bold", "Times-Bold"}

\* A classify whose catch-all arm is Paragraph instead of Mixed.
classify_no_mixed(ss) ==
    LET fonted == SelectSeq(ss, LAMBDA s : s.font # NoFont)
        numeric == TriCount(Cardinality({k \in 1..Len(ss) : ~is_number(SpanText(ss[k]))}),
                            Cardinality({k \in 1..Len(ss) : is_number(SpanText(ss[k]))}))
        bold == TriCount(Cardinality({k \in 1..Len(fonted) : ~IsBold(fonted[k].font)}),
                         Cardinality({k \in 1..Len(fonted) : IsBold(fonted[k].font)}))
        uniform == TriCount(Cardinality({k \in 2..Len(fonted) : fonted[k].font # fonted[1].font}),
                            Cardinality({k \in 2..Len(fonted) : fonted[k].font = fonted[1].font}) + 1)
    IN IF numeric = "True" /\ uniform = "True" THEN "Number"
       ELSE IF bold = "True" /\ uniform = "True" THEN "Header"
       ELSE "Paragraph"

\* A classify that does not push the extra true into uniform.
classify_no_extra_true(ss) ==
    LET fonted == SelectSeq(ss, LAMBDA s : s.font # NoFont)
        numeric == TriCount(Cardinality({k \in 1..Len(ss) : ~is_number(SpanText(ss[k]))}),
                            Cardinality({k \in 1..Len(ss) : is_number(SpanText(ss[k]))}))
        bold == TriCount(Cardinality({k \in 1..Len(fonted) : ~IsBold(fonted[k].font)}),
                         Cardinality({k \in 1..Len(fonted) : IsBold(fonted[k].font)}))
        uniform == TriCount(Cardinality({k \in 2..Len(fonted) : fonted[k].font # fonted[1].font}),
                            Cardinality({k \in 2..Len(fonted) : fonted[k].font = fonted[1].font}))
    IN IF numeric = "True" /\ uniform = "True" THEN "Number"
       ELSE IF bold = "True" /\ uniform = "True" THEN "Header"
       ELSE IF bold = "False" THEN "Paragraph"
       ELSE IF bold = "Maybe" THEN "Paragraph"
       ELSE "Mixed"

\* classify over a sequence of spans.  A span carries font, the name of its
\* font object (NoFont when it has none); two spans share the font object
\* exactly when they carry the same name.
classify(ss) ==
    LET n == Len(ss)
        fonted == SelectSeq(ss, LAMBDA s : s.font # NoFont)
        numeric == TriCount(Cardinality({k \in 1..n : ~is_number(SpanText(ss[k]))}),
                            Cardinality({k \in 1..n : is_number(SpanText(ss[k]))}))
        bold == TriCount(Cardinality({k \in 1..Len(fonted) : ~IsBold(fonted[k].font)}),
                         Cardinality({k \in 1..Len(fonted) : IsBold(fonted[k].font)}))
        uniform == TriCount(Cardinality({k \in 2..Len(fonted) : fonted[k].font # fonted[1].font}),
                            Cardinality({k \in 2..Len(fonted) : fonted[k].font = fonted[1].font}) + 1)
    IN IF numeric = "True" /\ uniform = "True" THEN "Number"
       ELSE IF bold = "True" /\ uniform = "True" THEN "Header"
       ELSE IF bold = "False" THEN "Paragraph"
       ELSE IF bold = "Maybe" THEN "Paragraph"
       ELSE "Mixed"

\* ------------------------------------------------------------- the trimmer

SpansOf(boxes, spans) == [k \in 1..Len(boxes) |-> spans[boxes[k].index]]
SumFont(ss) == SumSeq([k \in 1..Len(ss) |-> ss[k].font_size])

\* top_bottom_gap / left_right_gap: the first gap when it starts in the first
\* fifth of the page, the last gap when it starts in the last fifth.
\* lo and size are the page's origin and extent on the axis.
edge_gaps(boxes, axis, lo, size) ==
    LET low(g) == 5 * g.a < 5 * lo + size
        high(g) == 5 * g.a > 5 * lo + 4 * size
        edges(gl, n) ==
            IF n > 0 /\ low(gl[1])
            THEN (IF n > 1 /\ high(gl[n]) THEN [first |-> gl[1].idx, last |-> gl[n].idx]
                                          ELSE [first |-> gl[1].idx, last |-> -1])
            ELSE IF n > 0 /\ high(gl[1]) THEN [first |-> -1, last |-> gl[1].idx]
            ELSE [first |-> -1, last |-> -1]
        of(gl) == edges(gl, Len(gl))
    IN IF Len(boxes) < 2 THEN [first |-> -1, last |-> -1]
       ELSE of(gap_list(boxes, axis))

top_bottom_gap(boxes, bbox) == edge_gaps(boxes, "y", bbox.min_y, bbox.max_y - bbox.min_y)
left_right_gap(boxes, bbox) == edge_gaps(boxes, "x", bbox.min_x, bbox.max_x - bbox.min_x)

\* probably_header: Header or Number class, or a mean font size above the page's.
probably_header(boxes, spans) ==
    LET of(ss) == \/ classify(ss) \in {"Header", "Number"}
                  \/ SumFont(ss) * Len(spans) > SumFont(spans) * Len(boxes)
    IN of(SpansOf(boxes, spans))

\* probably_footer: every x-chunk (gaps of at least the mean font size) is probably_header.
probably_footer(boxes, spans, tie) ==
    LET all(cs) == \A k \in 1..Len(cs) : probably_header(cs[k], spans)
        of(bx) == all(split_by(bx, gaps(SumFont(spans), Len(spans), bx, "x"), "x"))
    IN of(sort_x(boxes, tie))

\* The four cuts, in the order of the source: bottom, top, right, left.
exclude_header_and_footer(boxes0, bbox, spans, tie) ==
    LET cut_left(b4, left) ==
            IF left # -1 /\ probably_header(SubSeq(b4, 1, left), spans)
            THEN SubSeq(b4, left + 1, Len(b4)) ELSE b4
        cut_right(b3, lr) ==
            cut_left(IF lr.last # -1 /\ probably_header(SubSeq(b3, lr.last + 1, Len(b3)), spans)
                     THEN SubSeq(b3, 1, lr.last) ELSE b3,
                     lr.first)
        sides(b3) == cut_right(b3, left_right_gap(b3, bbox))
        cut_top(b1, top) ==
            sides(sort_x(IF top # -1 /\ probably_header(SubSeq(b1, 1, top), spans)
                         THEN SubSeq(b1, top + 1, Len(b1)) ELSE b1, tie))
        \* probably_footer sorts the bottom part in place, also when it is kept
        cut_bottom(b0, tb, rest) ==
            cut_top(IF tb.last = -1 THEN b0
                    ELSE IF probably_footer(rest, spans, tie) THEN SubSeq(b0, 1, tb.last)
                    ELSE SubSeq(b0, 1, tb.last) \o sort_x(rest, tie),
                    tb.first)
        ends(b0, tb) == cut_bottom(b0, tb, SubSeq(b0, tb.last + 1, Len(b0)))
        of(b0) == ends(b0, top_bottom_gap(b0, bbox))
    IN of(sort_y(boxes0, tie))

\* ---------------------------------------------------------- analyze_lines

\* A dedup that measures the distance from the start of the cluster.
RECURSIVE dedup_from_start(_)
dedup_from_start(ys) ==
    IF ys = <<>> THEN <<>>
    ELSE LET ext == {k \in 1..Len(ys) : \A j \in 2..k : ys[1] + 10 * Unit > ys[j]}
             e == MaxOf(ext)
         IN <<(<<ys[1], ys[e]>>)>> \o dedup_from_start(SubSeq(ys, e + 1, Len(ys)))

\* dedup on an ascending sequence: consecutive values closer than 10.0 are one
\* cluster (start, last).
RECURSIVE dedup(_)
dedup(ys) ==
    IF ys = <<>> THEN <<>>
    ELSE LET ext == {k \in 1..Len(ys) : \A j \in 2..k : ys[j - 1] + 10 * Unit > ys[j]}
             e == MaxOf(ext)
         IN <<(<<ys[1], ys[e]>>)>> \o dedup(SubSeq(ys, e + 1, Len(ys)))

RECURSIVE SortedSeq(_)
SortedSeq(S) == IF S = {} THEN <<>> ELSE <<MinOf(S)>> \o SortedSeq(S \ {MinOf(S)})

\* analyze_lines, the hlines: the clusters of the y of the horizontal strokes.
\* A stroke is <<x1, y1, x2, y2>>; one with x1 = x2 counts as vertical.
analyze_hlines(strokes) ==
    dedup(SortedSeq({strokes[k][2] : k \in {j \in 1..Len(strokes) :
                        strokes[j][1] # strokes[j][3] /\ strokes[j][2] = strokes[j][4]}}))

\* ------------------------------------------------------------------- build

\* A build whose empty case is an empty Grid instead of a Final leaf.
build_empty_grid(spans, bbox, strokes, without_header_and_footer, tie) ==
    LET boxes0 == [k \in 1..Len(spans) |-> [rect |-> spans[k].rect, index |-> k]]
    IN IF Len(spans) = 0 THEN Grid(<<>>, <<>>, <<>>, "Singleton")
       ELSE split(IF without_header_and_footer
                  THEN exclude_header_and_footer(boxes0, bbox, spans, tie)
                  ELSE boxes0,
                  spans, analyze_hlines(strokes), tie)

build(spans, bbox, strokes, without_header_and_footer, tie) ==
    IF Len(spans) = 0 THEN singleton(<<>>)
    ELSE LET boxes0 == [k \in 1..Len(spans) |-> [rect |-> spans[k].rect, index |-> k]]
             boxes == IF without_header_and_footer
                      THEN exclude_header_and_footer(boxes0, bbox, spans, tie)
                      ELSE boxes0
         IN split(boxes, spans, analyze_hlines(strokes), tie)

\* Node::indices
RECURSIVE indices(_)
indices(node) ==
    IF node.type = "Final" THEN node.indices
    ELSE IF node.type = "Grid" THEN Flatten([k \in 1..Len(node.cells) |-> indices(node.cells[k])])
    ELSE LET vs == TableValues(node.table)
         IN Flatten([k \in 1..Len(vs) |-> vs[k].value])


\* ------------------------------------------------------------------ text

\* Unicode NFKC of one character: the compatibility characters of the model
\* decompose, every other one is its own normal form.
nfkc_char(c) ==
    CASE c = "LIGFI" -> <<"f", "i">>
      [] c = "NBSP" -> <<" ">>
      [] c = "ACUTE" -> <<" ", "COMB">>
      [] OTHER -> <<c>>
nfkc(txt) == Flatten([k \in 1..Len(txt) |-> nfkc_char(txt[k])])

\* x_off = (transform.matrix^-1 * transform.vector).x for the matrix diag(sx, sy)
XOff(s) == s.tx \div s.sx

\* The glyphs of the items in iteration order, each with what the loop body
\* computes for it: x, xe in em space (shifted by x_off), char_start and
\* char_end in device space, is_whitespace of its piece of text.
GlyphsOf(s) ==
    [k \in 1..Len(s.chars) |->
        [txt |-> s.chars[k].txt,
         ws |-> all_whitespace(s.chars[k].txt),
         ws1 |-> s.chars[k].txt[1] \in Whitespace,
         x |-> s.chars[k].pos + XOff(s),
         xe |-> s.chars[k].pos + XOff(s) + s.chars[k].width,
         char_start |-> s.sx * (s.chars[k].pos + XOff(s)),
         char_end |-> s.sx * (s.chars[k].pos + XOff(s) + s.chars[k].width),
         font_size |-> s.font_size,
         min_y |-> s.rect.min_y,
         max_y |-> s.rect.max_y]]
AllGlyphs(items) == Flatten([k \in 1..Len(items) |-> GlyphsOf(items[k])])

\* analyze_word_gap.  The result min(0.5 * avg_font_size, 2 * avg(gaps)) is
\* kept as the four integers it is made of: sum4 is four times the sum of the
\* clamped gaps, n their number, sumF and cnt the font sizes' sum and number.
analyze_word_gap(items) ==
    LET g4(ab) == Min2(Max2(4 * (ab[2].x - ab[1].xe), 4 * (Unit \div 100)),
                       ab[1].font_size + ab[2].font_size)
        avgs(pairs) == [sum4 |-> SumSeq([k \in 1..Len(pairs) |-> g4(pairs[k])]),
                        n |-> Len(pairs),
                        sumF |-> SumFont(items),
                        cnt |-> Len(items)]
        of(gl) == avgs(SelectSeq([k \in 1..(Len(gl) - 1) |-> <<gl[k], gl[k + 1]>>],
                                 LAMBDA ab : ab[2].x > ab[1].x))
    IN of(SelectSeq(AllGlyphs(items), LAMBDA g : ~g.ws1))

\* d > word_gap
ExceedsGap(d, wg) ==
    \/ d * 2 * wg.cnt > wg.sumF
    \/ IF wg.n = 0 THEN d > 0 ELSE d * 2 * wg.n > wg.sum4

\* WordBuilder.  y_min = +inf, y_max = -inf until bounded.
WordBuilderNew(idx) ==
    [word_start_idx |-> idx, start_pos |-> 0, end_pos |-> 0, y_min |-> 0, y_max |-> 0,
     bounded |-> FALSE, chars |-> <<>>, started |-> FALSE]
start_new(wb, idx, pos) ==
    [wb EXCEPT !.word_start_idx = idx, !.start_pos = pos, !.started = TRUE]
add_char(wb, start, end) ==
    [wb EXCEPT !.chars = Append(@, [offset |-> Len(wb.chars), pos |-> start, width |-> end - start]),
               !.end_pos = end]
update_bounds(wb, min_y, max_y) ==
    IF ~wb.started \/ ~wb.bounded
    THEN [wb EXCEPT !.y_min = min_y, !.y_max = max_y, !.started = TRUE, !.bounded = TRUE]
    ELSE [wb EXCEPT !.y_min = Min2(@, min_y), !.y_max = Max2(@, max_y)]
\* WordBuilder::build: text = out[word_start_idx..], w = end_pos - start_pos.
\* range is the byte range of out the text is the copy of.
word_build(wb, out, end_pos) ==
    [text |-> SubSeq(out, wb.word_start_idx + 1, Len(out)),
     range |-> [start |-> wb.word_start_idx, end |-> Len(out)],
     x |-> wb.start_pos, w |-> end_pos - wb.start_pos,
     y |-> wb.y_min, h |-> wb.y_max - wb.y_min, bounded |-> wb.bounded,
     chars |-> wb.chars]

\* The body of the loop of concat_text for one glyph.
concat_step(st, g, wg) ==
    LET branch(cw, len) ==
          IF st.trailing_space /\ ~g.ws
          THEN [st EXCEPT !.cw = add_char(start_new(cw, len, g.char_start), g.char_start, g.char_end),
                          !.out = @ \o nfkc(g.txt)]
          ELSE IF ~st.trailing_space
          THEN IF g.ws
               THEN [st EXCEPT !.words = Append(@, word_build(cw, st.out, g.char_end)),
                               !.cw = WordBuilderNew(len),
                               !.out = Append(@, " ")]
               ELSE IF ExceedsGap(g.x - cw.end_pos, wg)
               THEN [st EXCEPT !.words = Append(@, word_build(cw, st.out, g.char_end)),
                               !.cw = add_char(start_new(WordBuilderNew(len), len, g.char_start),
                                               g.char_start, g.char_end),
                               !.out = @ \o nfkc(g.txt)]
               ELSE [st EXCEPT !.cw = add_char(cw, g.char_start, g.char_end),
                               !.out = @ \o nfkc(g.txt)]
          ELSE st
    IN [branch(st.cw, Len(st.out)) EXCEPT !.trailing_space = g.ws,
                                          !.cw = update_bounds(@, g.min_y, g.max_y)]

RECURSIVE concat_loop(_, _, _)
concat_loop(st, gs, wg) ==
    IF gs = <<>> THEN st ELSE concat_loop(concat_step(st, Head(gs), wg), Tail(gs), wg)

\* concat_text(out, items): the buffer afterwards and the words returned.
concat_text(out0, items) ==
    LET final(st) == [out |-> st.out,
                      words |-> IF st.cw.chars # <<>>
                                THEN Append(st.words, word_build(st.cw, st.out, st.cw.end_pos))
                                ELSE st.words]
    IN final(concat_loop([out |-> out0, words |-> <<>>, cw |-> WordBuilderNew(Len(out0)),
                          trailing_space |-> (out0 = <<>> \/ out0[Len(out0)] \in Whitespace)],
                         AllGlyphs(items), analyze_word_gap(items)))


\* ------------------------------------------------------------------ flow

FlowNew == [lines |-> <<>>, runs |-> <<>>]

\* Flow::add_line
add_line(flow, words, kind) ==
    IF Len(words) > 0
    THEN [flow EXCEPT !.runs = Append(@, [lines |-> <<words>>, kind |-> kind])]
    ELSE flow

\* Flow::add_table: the body is empty.
add_table(flow, table) == flow

RunKind(class) == IF class = "Header" THEN "Header" ELSE "Paragraph"

SpansAt(ix, spans) == [k \in 1..Len(ix) |-> spans[ix[k]]]
BBoxOf(ss) == UnionAll([k \in 1..Len(ss) |-> ss[k].rect])

\* The contents the Table arm computes for the cells: text and union bbox.
cell_contents(table, spans) ==
    LET content(ss) == [text |-> concat_text(<<>>, ss).out, rect |-> BBoxOf(ss)]
        of(vs) == [k \in 1..Len(vs) |-> content(SpansAt(vs[k].value, spans))]
    IN of(SelectSeq(TableValues(table), LAMBDA c : Len(c.value) > 0))

\* The lines of a Paragraph grid: (bbox, indices) of every cell that has indices.
para_lines(cells, spans) ==
    LET of(per) == [k \in 1..Len(per) |-> [bbox |-> BBoxOf(SpansAt(per[k], spans)), ix |-> per[k]]]
    IN of(SelectSeq([k \in 1..Len(cells) |-> indices(cells[k])], LAMBDA ix : Len(ix) > 0))

\* A loop that starts a new Run at every line at or right of the margin,
\* whatever the convention.
RECURSIVE para_loop_right(_, _, _, _, _, _, _)
para_loop_right(st, lines, k, right, indent, kind, spans) ==
    IF k > Len(lines) THEN st
    ELSE LET add(st1, r) ==
                 [st1 EXCEPT !.text = r.out,
                             !.flow_lines = IF Len(r.words) > 0 THEN Append(@, r.words) ELSE @]
             of(st1) == add(st1, concat_text(st1.text, SpansAt(lines[k].ix, spans)))
         IN para_loop_right(of(IF k = 1 THEN st
                               ELSE IF right[k]
                               THEN [st EXCEPT !.runs = Append(@, [lines |-> st.flow_lines, kind |-> kind]),
                                               !.flow_lines = <<>>]
                               ELSE [st EXCEPT !.text = Append(@, "NL")]),
                            lines, k + 1, right, indent, kind, spans)

\* The second loop of the Paragraph arm.  st = (runs, text, flow_lines).
RECURSIVE para_loop(_, _, _, _, _, _, _)
para_loop(st, lines, k, right, indent, kind, spans) ==
    IF k > Len(lines) THEN st
    ELSE LET add(st1, r) ==
                 [st1 EXCEPT !.text = r.out,
                             !.flow_lines = IF Len(r.words) > 0 THEN Append(@, r.words) ELSE @]
             of(st1) == add(st1, concat_text(st1.text, SpansAt(lines[k].ix, spans)))
         IN para_loop(of(IF k = 1 THEN st
                         ELSE IF right[k] = indent
                         THEN [st EXCEPT !.runs = Append(@, [lines |-> st.flow_lines, kind |-> kind]),
                                         !.flow_lines = <<>>]
                         ELSE [st EXCEPT !.text = Append(@, "NL")]),
                      lines, k + 1, right, indent, kind, spans)

\* flow::build
RECURSIVE flow_build(_, _, _)
RECURSIVE flow_cells(_, _, _)
flow_cells(flow, spans, cells) ==
    IF cells = <<>> THEN flow
    ELSE flow_cells(flow_build(flow, spans, Head(cells)), spans, Tail(cells))

flow_build(flow, spans, node) ==
    LET line(ss) == add_line(flow, concat_text(<<>>, ss).words, RunKind(classify(ss)))
        \* the Paragraph arm; right[k]: line_bbox.min_x() >= left_margin
        \* = bbox.min_x() + 0.5 * avg height
        close(st, kind) ==
            [flow EXCEPT !.runs = Append(st.runs, [lines |-> st.flow_lines, kind |-> kind])]
        runs(lines, right, indent, kind) ==
            close(para_loop([runs |-> flow.runs, text |-> <<>>, flow_lines |-> <<>>],
                            lines, 1, right, indent, kind, spans), kind)
        indented(lines, right, kind) ==
            runs(lines, right,
                 Cardinality({k \in 1..Len(lines) : ~right[k]})
                     > Cardinality({k \in 1..Len(lines) : right[k]}),
                 kind)
        margin(lines, ps, bbox, sumH) ==
            indented(lines,
                     [k \in 1..Len(lines) |->
                         2 * Len(ps) * (lines[k].bbox.min_x - bbox.min_x) >= sumH],
                     RunKind(classify(ps)))
        para(lines, ps) ==
            margin(lines, ps, UnionAll([k \in 1..Len(lines) |-> lines[k].bbox]),
                   SumSeq([k \in 1..Len(ps) |-> Height(ps[k].rect)]))
        paragraph(lines) ==
            para(lines, SpansAt(Flatten([k \in 1..Len(lines) |-> lines[k].ix]), spans))
    IN IF node.type = "Final"
       THEN (IF Len(node.indices) > 0 THEN line(SpansAt(node.indices, spans)) ELSE flow)
       ELSE IF node.type = "Grid"
       THEN IF node.tag \in {"Singleton", "Line"}
            THEN line(SpansAt(indices(node), spans))
            ELSE IF node.tag = "Paragraph"
            THEN paragraph(para_lines(node.cells, spans))
            ELSE flow_cells(flow, spans, node.cells)
       ELSE IF TableValues(node.table) # <<>>
            THEN add_table(flow, cell_contents(node.table, spans))
            ELSE flow

\* ---------------------------------------------------------------- inputs

\* Most spans and most strokes of one page, most items of one concat_text
\* call, most spans of one classify call.
MaxSpans == 5
MaxStrokes == 2
MaxItems == 2
MaxClass == 4
MaxLines == 4
MaxRows == 6
MaxPara == 4
MaxBlank == 4

\* One glyph (TextChar) with its piece of the span's text.
Glyph(txt, pos, width) == [txt |-> txt, pos |-> pos, width |-> width]
\* Glyphs of equal width w, one per character, set side by side from pos 0.
Glyphs(cs, w) == [k \in 1..Len(cs) |-> Glyph(<<cs[k]>>, (k - 1) * w, w)]

\* A TextSpan: rect, font (name of the font object), font_size, chars with
\* their text, transform = scale sx and translation tx on the x axis.
TextSpan(rect, font, font_size, chars, sx, tx) ==
    [rect |-> rect, font |-> font, font_size |-> font_size, chars |-> chars, sx |-> sx, tx |-> tx]

\* The page: 14 x 8 device units.
PageBBox == Rect(0, 1400, 0, 800)

\* A span of the page at [x0, x1] x [y0, y1] with the text cs.
PSpan(x0, x1, y0, y1, font, font_size, cs) ==
    TextSpan(Rect(x0, x1, y0, y1), font, font_size, Glyphs(cs, (x1 - x0) \div Len(cs)), 1, x0)

\* The spans a page is made of.  Columns a = [0,1], b = [3,4], c = [8,9],
\* d = [13,14], w = [0,4] (a and b), e = [4.5,5.5]; rows r0 = [0,1], r1 = [3,4],
\* r1b = [4.5,5.5], r2 = [7,8], and the tall T = [0,8], the low m = [5.5,6].
SpanPalette ==
    << PSpan(300, 400, 0, 100, "Arial", 12 * Unit, <<"b">>),
       PSpan(0, 100, 0, 100, "Arial-Bold", 12 * Unit, <<"a">>),
       PSpan(0, 400, 0, 100, "Arial-Bold", 18 * Unit, <<"H", "i">>),
       PSpan(0, 400, 300, 400, "Arial", 12 * Unit, <<"w", " ", "x", "y">>),
       PSpan(300, 400, 300, 400, "Arial", 12 * Unit, <<"b">>),
       PSpan(0, 400, 450, 550, "Arial", 12 * Unit, <<"u", "v">>),
       PSpan(0, 100, 700, 800, "Arial", 12 * Unit, <<"a">>),
       PSpan(800, 900, 700, 800, "Arial", 12 * Unit, <<"c">>),
       PSpan(1300, 1400, 700, 800, "Arial", 12 * Unit, <<"7">>),
       PSpan(0, 400, 0, 800, NoFont, 12 * Unit, <<"T">>),
       PSpan(450, 550, 550, 600, "Arial", 12 * Unit, <<"m">>),
       PSpan(450, 550, 700, 800, "Arial", 12 * Unit, <<"3">>) >>

\* The strokes a page is made of: a ruling between r0 and r1, a vertical one.
StrokePalette == << <<0, 200, 1400, 200>>, <<600, 0, 600, 800>> >>

\* The spans one call of concat_text is made of (glyphs 10 wide, font size 12).
ItemPalette ==
    << TextSpan(Rect(0, 5000, 0, 1000), "Arial", 12 * Unit, Glyphs(<<"h", "e", "l", "l", "o">>, 1000), 1, 0),
       TextSpan(Rect(10000, 15000, 0, 1000), "Arial", 12 * Unit, Glyphs(<<"w", "o", "r", "l", "d">>, 1000), 1, 10000),
       TextSpan(Rect(5680, 13626, 5585, 6785), NoFont, 12 * Unit,
                Glyphs(<<"h", "e", "l", "l", "o", " ", "w", "o", "r", "l", "d">>, 722), 1, 5680),
       TextSpan(Rect(0, 3000, 2000, 2500), "Arial", 12 * Unit, Glyphs(<<" ", "a", "NBSP">>, 1000), 1, 0),
       TextSpan(Rect(0, 7000, 0, 1000), "Arial", 12 * Unit,
                <<Glyph(<<"a">>, 0, 1000), Glyph(<<"b">>, 2500, 1000)>>, 2, 0),
       TextSpan(Rect(0, 2000, 0, 1000), "Arial", 12 * Unit, Glyphs(<<"ACUTE", "LIGFI">>, 1000), 1, 0),
       TextSpan(Rect(0, 1000, 0, 1000), "Arial", 12 * Unit, <<Glyph(<<"a", "NL">>, 0, 1000)>>, 1, 0) >>

\* The spans of a page laid out as a grid: columns a = [0,1], b = [3,4], rows
\* r0 = [0,1], r1 = [3,4], r2 = [5,6]; a heading over both columns in r0, a
\* page number "42" in the bottom 5 % of the page, a body block down to y = 7.
GridPalette ==
    << PSpan(0, 100, 0, 100, "Arial", 12 * Unit, <<"a">>),
       PSpan(300, 400, 0, 100, "Arial", 12 * Unit, <<"b">>),
       PSpan(0, 400, 0, 100, "Arial", 12 * Unit, <<"H", "d">>),
       PSpan(0, 100, 300, 400, "Arial", 12 * Unit, <<"c">>),
       PSpan(300, 400, 300, 400, "Arial", 12 * Unit, <<"d">>),
       PSpan(0, 100, 500, 600, "Arial", 12 * Unit, <<"e">>),
       PSpan(300, 400, 500, 600, "Arial", 12 * Unit, <<"f">>),
       PSpan(0, 400, 600, 700, "Arial", 12 * Unit, <<"g", "h">>),
       PSpan(0, 100, 760, 800, "Arial", 12 * Unit, <<"4", "2">>) >>

\* The spans of a page of short text lines: runs at x = [0,1], [3,4], [6,7] in
\* lines at y = [0,1], [3,4], [6,7], the gaps between the runs of a line (2)
\* below 0.3 * font size (3.6), and a second line y = [1.2,2.2] close under
\* the first.
TextPalette ==
    << PSpan(0, 100, 0, 100, "Arial", 12 * Unit, <<"a">>),
       PSpan(300, 400, 0, 100, "Arial", 12 * Unit, <<"b">>),
       PSpan(0, 100, 120, 220, "Arial", 12 * Unit, <<"c">>),
       PSpan(300, 400, 300, 400, "Arial", 12 * Unit, <<"d">>),
       PSpan(600, 700, 300, 400, "Arial", 12 * Unit, <<"e">>),
       PSpan(0, 100, 600, 700, "Arial", 12 * Unit, <<"f">>),
       PSpan(300, 400, 600, 700, "Arial", 12 * Unit, <<"g">>) >>

\* The spans of a page of paragraphs: lines of height 10 in four rows one
\* unit apart, each starting at x = 0, 5 or 20 and ending at x = 60.
ParaPalette ==
    << PSpan(0, 6000, 0, 1000, "Arial", 12 * Unit, <<"a">>),
       PSpan(500, 6000, 0, 1000, "Arial", 12 * Unit, <<"b">>),
       PSpan(2000, 6000, 0, 1000, "Arial", 12 * Unit, <<"c">>),
       PSpan(0, 6000, 1100, 2100, "Arial", 12 * Unit, <<"d">>),
       PSpan(500, 6000, 1100, 2100, "Arial", 12 * Unit, <<"e">>),
       PSpan(2000, 6000, 1100, 2100, "Arial", 12 * Unit, <<"f">>),
       PSpan(0, 6000, 2200, 3200, "Arial", 12 * Unit, <<"g">>),
       PSpan(500, 6000, 2200, 3200, "Arial", 12 * Unit, <<"h">>),
       PSpan(2000, 6000, 2200, 3200, "Arial", 12 * Unit, <<"i">>),
       PSpan(0, 6000, 3300, 4300, "Arial", 12 * Unit, <<"j">>),
       PSpan(500, 6000, 3300, 4300, "Arial", 12 * Unit, <<"k">>),
       PSpan(2000, 6000, 3300, 4300, "Arial", 12 * Unit, <<"l">>) >>

\* The spans of a page of paragraphs some of whose lines are blank: four rows
\* as in ParaPalette, each as a line of text or as a line of one space.
BlankPalette ==
    << PSpan(0, 6000, 0, 1000, "Arial", 12 * Unit, <<"a">>),
       PSpan(0, 6000, 0, 1000, "Arial", 12 * Unit, <<" ">>),
       PSpan(2000, 6000, 1100, 2100, "Arial", 12 * Unit, <<"b">>),
       PSpan(2000, 6000, 1100, 2100, "Arial", 12 * Unit, <<" ">>),
       PSpan(0, 6000, 2200, 3200, "Arial", 12 * Unit, <<"c">>),
       PSpan(0, 6000, 2200, 3200, "Arial", 12 * Unit, <<" ">>),
       PSpan(0, 6000, 3300, 4300, "Arial", 12 * Unit, <<"d">>),
       PSpan(0, 6000, 3300, 4300, "Arial", 12 * Unit, <<" ">>) >>

\* The strokes analyze_lines is called on: horizontal ones at y = 1, 5, 8, 12,
\* 18, 25 and 28, a vertical one, a slanted one and a point (x1 = x2 is
\* tested first, so the point counts as vertical).
LinePalette ==
    << <<0, 1 * Unit, 1400, 1 * Unit>>, <<0, 5 * Unit, 1400, 5 * Unit>>,
       <<0, 8 * Unit, 1400, 8 * Unit>>, <<0, 12 * Unit, 1400, 12 * Unit>>,
       <<0, 18 * Unit, 1400, 18 * Unit>>, <<0, 25 * Unit, 1400, 25 * Unit>>,
       <<0, 28 * Unit, 1400, 28 * Unit>>,
       <<600, 0, 600, 800>>, <<0, 0, 1400, 800>>, <<700, 3 * Unit, 700, 3 * Unit>> >>

\* The spans classify is called on: a font object (by name) or none, a word
\* or a number as text.
ClassPalette ==
    << PSpan(0, 100, 0, 100, "Arial", 12 * Unit, <<"a">>),
       PSpan(0, 100, 0, 100, "Arial", 12 * Unit, <<"7">>),
       PSpan(0, 100, 0, 100, "Arial-Bold", 12 * Unit, <<"a">>),
       PSpan(0, 100, 0, 100, "Arial-Bold", 12 * Unit, <<"7">>),
       PSpan(0, 100, 0, 100, "Times-Bold", 12 * Unit, <<"a">>),
       PSpan(0, 100, 0, 100, "Times-Bold", 12 * Unit, <<"7">>),
       PSpan(0, 100, 0, 100, NoFont, 12 * Unit, <<"a">>),
       PSpan(0, 100, 0, 100, NoFont, 12 * Unit, <<"7">>) >>

\* The buffers concat_text is called with: empty, ending in a word, in a
\* space, in a line feed.
Buffers == { <<>>, <<"x">>, <<"x", " ">>, <<"x", "NL">> }

\* ----------------------------------------------------------- state machine

\* spans, strokes: the input of the page; root: the tree; flow: the Flow;
\* picked: the last palette entries taken and the arguments build was called with.
\* items, out, words: the arguments and the result of one call of concat_text;
\* out0: the buffer as it was at the call.
\* class: the result of classify on the spans.
\* hlines: the result of analyze_lines on the strokes, its hlines.
VARIABLES spans, strokes, root, flow, pc, picked, items, out, out0, words, tpc, class, hlines

vars == <<spans, strokes, root, flow, pc, picked, items, out, out0, words, tpc, class, hlines>>

\* No tree yet.
NoNode == [type |-> "None", indices |-> <<>>, x |-> <<>>, y |-> <<>>,
           cells |-> <<>>, tag |-> "Singleton", table |-> NoTable]

TreeIdle == /\ spans = <<>> /\ strokes = <<>> /\ root = NoNode /\ flow = FlowNew
            /\ pc = "input" /\ picked = [sp |-> 0, st |-> 0, trim |-> FALSE, tie |-> "keep"]
            /\ class = "None" /\ hlines = <<>>
TextIdle == /\ items = <<>> /\ out = <<>> /\ out0 = <<>> /\ words = <<>> /\ tpc = "input"

Init == TreeIdle /\ TextIdle

\* The tracer hands over one more span (the spans of a page are taken from
\* the palette in its order; picked.sp is the last one taken).
AddSpan(p) ==
    /\ pc = "input" /\ Len(spans) < MaxSpans /\ p > picked.sp
    /\ spans' = Append(spans, SpanPalette[p])
    /\ picked' = [picked EXCEPT !.sp = p]
    /\ UNCHANGED <<strokes, root, flow, pc, items, out, out0, words, tpc, class, hlines>>

\* The tracer hands over one more stroke.
AddStroke(p) ==
    /\ pc = "input" /\ Len(strokes) < MaxStrokes /\ p > picked.st
    /\ strokes' = Append(strokes, StrokePalette[p])
    /\ picked' = [picked EXCEPT !.st = p]
    /\ UNCHANGED <<spans, root, flow, pc, items, out, out0, words, tpc, class, hlines>>

\* A build whose sorts order equal keys in a way that is not the same from one
\* invocation to the next.
Build_any_tie(without_header_and_footer, tie) ==
    /\ pc = "input"
    /\ \E now \in {"keep", "flip"} :
          root' = build(spans, PageBBox, strokes, without_header_and_footer, now)
    /\ picked' = [picked EXCEPT !.trim = without_header_and_footer, !.tie = tie]
    /\ pc' = "built"
    /\ UNCHANGED <<spans, strokes, flow, items, out, out0, words, tpc, class, hlines>>

\* node::build(spans, bbox, lines, without_header_and_footer)
Build(without_header_and_footer, tie) ==
    /\ pc = "input"
    /\ root' = build(spans, PageBBox, strokes, without_header_and_footer, tie)
    /\ picked' = [picked EXCEPT !.trim = without_header_and_footer, !.tie = tie]
    /\ pc' = "built"
    /\ UNCHANGED <<spans, strokes, flow, items, out, out0, words, tpc, class, hlines>>

\* flow::build(flow, spans, root, bbox.min_x())
Emit ==
    /\ pc = "built"
    /\ flow' = flow_build(FlowNew, spans, root)
    /\ pc' = "emitted"
    /\ UNCHANGED <<spans, strokes, root, picked, items, out, out0, words, tpc, class, hlines>>

Next ==
    \/ \E p \in 1..Len(SpanPalette) : AddSpan(p)
    \/ \E p \in 1..Len(StrokePalette) : AddStroke(p)
    \/ \E t \in BOOLEAN, tie \in {"keep", "flip"} : Build(t, tie)
    \/ Emit

Spec == Init /\ [][Next]_vars

\* A page laid out as a grid.
AddCell(p) ==
    /\ pc = "input" /\ Len(spans) < MaxSpans /\ p > picked.sp
    /\ spans' = Append(spans, GridPalette[p])
    /\ picked' = [picked EXCEPT !.sp = p]
    /\ UNCHANGED <<strokes, root, flow, pc, items, out, out0, words, tpc, class, hlines>>

NextGrid ==
    \/ \E p \in 1..Len(GridPalette) : AddCell(p)
    \/ \E p \in 1..Len(StrokePalette) : AddStroke(p)
    \/ \E t \in BOOLEAN, tie \in {"keep", "flip"} : Build(t, tie)
    \/ Emit

SpecGrid == Init /\ [][NextGrid]_vars

\* A page of short text lines.
AddText(p) ==
    /\ pc = "input" /\ Len(spans) < MaxRows /\ p > picked.sp
    /\ spans' = Append(spans, TextPalette[p])
    /\ picked' = [picked EXCEPT !.sp = p]
    /\ UNCHANGED <<strokes, root, flow, pc, items, out, out0, words, tpc, class, hlines>>

NextRows ==
    \/ \E p \in 1..Len(TextPalette) : AddText(p)
    \/ \E t \in BOOLEAN, tie \in {"keep", "flip"} : Build(t, tie)
    \/ Emit

SpecRows == Init /\ [][NextRows]_vars

\* A page of paragraphs.
AddPara(p) ==
    /\ pc = "input" /\ Len(spans) < MaxPara /\ p > picked.sp
    /\ spans' = Append(spans, ParaPalette[p])
    /\ picked' = [picked EXCEPT !.sp = p]
    /\ UNCHANGED <<strokes, root, flow, pc, items, out, out0, words, tpc, class, hlines>>

NextPara ==
    \/ \E p \in 1..Len(ParaPalette) : AddPara(p)
    \/ \E t \in BOOLEAN, tie \in {"keep", "flip"} : Build(t, tie)
    \/ Emit

SpecPara == Init /\ [][NextPara]_vars

\* A page of paragraphs with blank lines.
AddBlank(p) ==
    /\ pc = "input" /\ Len(spans) < MaxBlank /\ p > picked.sp
    /\ spans' = Append(spans, BlankPalette[p])
    /\ picked' = [picked EXCEPT !.sp = p]
    /\ UNCHANGED <<strokes, root, flow, pc, items, out, out0, words, tpc, class, hlines>>

NextBlank ==
    \/ \E p \in 1..Len(BlankPalette) : AddBlank(p)
    \/ \E t \in BOOLEAN, tie \in {"keep", "flip"} : Build(t, tie)
    \/ Emit

SpecBlank == Init /\ [][NextBlank]_vars

\* One call of analyze_lines: the strokes, in any order, then the clusters of
\* the horizontal ones.
AddLine(p) ==
    /\ pc = "input" /\ Len(strokes) < MaxLines
    /\ strokes' = Append(strokes, LinePalette[p])
    /\ UNCHANGED <<spans, root, flow, pc, picked, items, out, out0, words, tpc, class, hlines>>

Analyze ==
    /\ pc = "input"
    /\ hlines' = analyze_hlines(strokes)
    /\ pc' = "analyzed"
    /\ UNCHANGED <<spans, strokes, root, flow, picked, items, out, out0, words, tpc, class>>

NextLines == (\E p \in 1..Len(LinePalette) : AddLine(p)) \/ Analyze

SpecLines == Init /\ [][NextLines]_vars

\* One call of classify: the spans, in any order, then the class.
AddFontSpan(p) ==
    /\ pc = "input" /\ Len(spans) < MaxClass
    /\ spans' = Append(spans, ClassPalette[p])
    /\ UNCHANGED <<strokes, root, flow, pc, picked, items, out, out0, words, tpc, class, hlines>>

Classify ==
    /\ pc = "input"
    /\ class' = classify(spans)
    /\ pc' = "classified"
    /\ UNCHANGED <<spans, strokes, root, flow, picked, items, out, out0, words, tpc, hlines>>

NextClass == (\E p \in 1..Len(ClassPalette) : AddFontSpan(p)) \/ Classify

SpecClass == Init /\ [][NextClass]_vars

\* One call of concat_text: the buffer it is called with, then the items.
InitText == TreeIdle /\ items = <<>> /\ out \in Buffers /\ out0 = out /\ words = <<>> /\ tpc = "input"

AddItem(p) ==
    /\ tpc = "input" /\ Len(items) < MaxItems
    /\ items' = Append(items, ItemPalette[p])
    /\ UNCHANGED <<spans, strokes, root, flow, pc, picked, out, out0, words, tpc, class, hlines>>

\* words = concat_text(&mut out, items)
Concat ==
    /\ tpc = "input" /\ Len(items) > 0
    /\ out' = concat_text(out, items).out
    /\ words' = concat_text(out, items).words
    /\ tpc' = "done"
    /\ UNCHANGED <<spans, strokes, root, flow, pc, picked, items, out0, class, hlines>>

NextText == (\E p \in 1..Len(ItemPalette) : AddItem(p)) \/ Concat

SpecText == InitText /\ [][NextText]_vars


\* ------------------------------------------------------------ properties

\* The nodes of a tree.
RECURSIVE Nodes(_)
Nodes(node) == {node} \cup UNION {Nodes(node.cells[k]) : k \in 1..Len(node.cells)}

Count(seq, v) == Cardinality({k \in 1..Len(seq) : seq[k] = v})

StrictlyAscending(seq) == \A k \in 1..(Len(seq) - 1) : seq[k] < seq[k + 1]

\* The indices build hands to split: all of them, or those the trimmer keeps.
KeptIndices ==
    LET boxes0 == [k \in 1..Len(spans) |-> [rect |-> spans[k].rect, index |-> k]]
        kept == IF picked.trim
                THEN exclude_header_and_footer(boxes0, PageBBox, spans, picked.tie)
                ELSE boxes0
    IN {kept[k].index : k \in 1..Len(kept)}

\* C1: after the tree build on a non-empty span list, every index the trimmer
\* did not remove appears exactly once across the Final leaves and the Table
\* cells of the tree.
C1_EveryIndexExactlyOnce ==
    (pc # "input" /\ Len(spans) > 0) =>
        \A i \in KeptIndices : Count(indices(root), i) = 1

\* The glyph runs the words of concat_text are to be: maximal runs of
\* consecutive non-whitespace glyphs, a run ending at a whitespace glyph or
\* where the next glyph's left edge lies more than the space threshold beyond
\* the previous glyph's right edge.
RECURSIVE GlyphRuns(_, _, _)
GlyphRuns(gs, cur, wg) ==
    IF gs = <<>> THEN (IF cur = <<>> THEN <<>> ELSE <<cur>>)
    ELSE LET g == Head(gs)
         IN IF g.ws
            THEN (IF cur = <<>> THEN <<>> ELSE <<cur>>) \o GlyphRuns(Tail(gs), <<>>, wg)
            ELSE IF cur # <<>> /\ ExceedsGap(g.x - cur[Len(cur)].xe, wg)
            THEN <<cur>> \o GlyphRuns(Tail(gs), <<g>>, wg)
            ELSE GlyphRuns(Tail(gs), Append(cur, g), wg)

RunText(run) == nfkc(Flatten([k \in 1..Len(run) |-> run[k].txt]))

Hello == <<"h", "e", "l", "l", "o">>
World == <<"w", "o", "r", "l", "d">>

\* C2: concat_text returns exactly one Word per maximal run of non-whitespace
\* glyphs, each with the (normalized) text of its glyphs; the span "hello world"
\* gives the buffer "hello world" and two words, the spans "hello" and "world"
\* give the words "hello", "world".
C2_OneWordPerGlyphRun ==
    tpc = "done" =>
        LET runs == GlyphRuns(AllGlyphs(items), <<>>, analyze_word_gap(items))
        IN /\ Len(words) = Len(runs)
           /\ \A k \in 1..Len(runs) : words[k].text = RunText(runs[k])
           /\ (out0 = <<>> /\ items = <<ItemPalette[3]>>) =>
                 out = Hello \o <<" ">> \o World /\ Len(words) = 2
           /\ (out0 = <<>> /\ items = <<ItemPalette[1], ItemPalette[2]>>) =>
                 [k \in 1..Len(words) |-> words[k].text] = <<Hello, World>>

\* C3: every Grid of the tree has (|x_splits| + 1) * (|y_splits| + 1) cells.
C3_GridCellCount ==
    \A n \in Nodes(root) :
        n.type = "Grid" => Len(n.cells) = (Len(n.x) + 1) * (Len(n.y) + 1)

\* A tree with a grid split on both axes that has a cell without boxes.
C3_Witness ==
    \E n \in Nodes(root) :
        /\ n.type = "Grid" /\ Len(n.x) > 0 /\ Len(n.y) > 0
        /\ \E k \in 1..Len(n.cells) : n.cells[k].type = "Final" /\ n.cells[k].indices = <<>>

\* C4: in every Grid of the tree x_splits and y_splits are strictly ascending.
C4_SplitsAscending ==
    \A n \in Nodes(root) :
        n.type = "Grid" => StrictlyAscending(n.x) /\ StrictlyAscending(n.y)

\* C5: the text of every Word of concat_text has no newline and no leading or
\* trailing whitespace, whatever the buffer was at the call.
C5_WordTextTrimmed ==
    tpc = "done" =>
        \A k \in 1..Len(words) :
            LET t == words[k].text
            IN /\ \A j \in 1..Len(t) : t[j] # "NL"
               /\ Len(t) > 0 => t[1] \notin Whitespace /\ t[Len(t)] \notin Whitespace

\* C6: two adjacent words of concat_text are separated in the buffer by
\* exactly one ASCII space.
C6_OneSpaceBetweenWords ==
    tpc = "done" =>
        \A k \in 1..(Len(words) - 1) :
            /\ words[k + 1].range.start = words[k].range.end + 1
            /\ out[words[k].range.end + 1] = " "

\* C7: the rect of a Word runs from the left edge of its first glyph to the
\* right edge of its last glyph (device space).
C7_WordRectIsGlyphUnion ==
    tpc = "done" =>
        \A k \in 1..Len(words) :
            LET cs == words[k].chars
            IN Len(cs) > 0 =>
                /\ words[k].x = cs[1].pos
                /\ words[k].x + words[k].w = cs[Len(cs)].pos + cs[Len(cs)].width

\* C8: in every Table the column ranges of two cells set in the same row are
\* disjoint.
C8_CellsDisjoint ==
    \A n \in Nodes(root) :
        n.type = "Table" =>
            \A i, j \in 1..Len(n.table.cells) :
                LET a == n.table.cells[i]
                    b == n.table.cells[j]
                IN (i # j /\ a.row = b.row) =>
                      (a.col + a.colspan <= b.col \/ b.col + b.colspan <= a.col)

\* The texts of the words of a Flow.
FlowTexts(f) ==
    {f.runs[r].lines[l][w].text :
        <<r, l, w>> \in {t \in (1..Len(f.runs)) \X (1..8) \X (1..8) :
                           /\ t[2] <= Len(f.runs[t[1]].lines)
                           /\ t[3] <= Len(f.runs[t[1]].lines[t[2]])}}

\* C9: the text of every span placed in a cell of a Table is in the Flow.
C9_TableTextInFlow ==
    pc = "emitted" =>
        \A n \in Nodes(root) :
            n.type = "Table" =>
                \A c \in Range(TableValues(n.table)) :
                    \A i \in Range(c.value) :
                        \A w \in Range(concat_text(<<>>, <<spans[i]>>).words) :
                            w.text \in FlowTexts(flow)

\* Scenario S3: a first span in Arial-Bold 18, every other span in Arial 12
\* and below it, the body closer together than it is to the header.
S3Input ==
    /\ Len(spans) >= 2
    /\ spans[1].font = "Arial-Bold" /\ spans[1].font_size = 18 * Unit
    /\ \A k \in 2..Len(spans) :
          /\ spans[k].font = "Arial" /\ spans[k].font_size = 12 * Unit
          /\ spans[k].rect.min_y > spans[1].rect.max_y
    /\ LET body == sort_y([k \in 1..(Len(spans) - 1) |->
                              [rect |-> spans[k + 1].rect, index |-> k + 1]], "keep")
       IN /\ ~dist_x(sort_x(body, "keep")).some
          /\ 2 * dist_y(body).size < body[1].rect.min_y - spans[1].rect.max_y

\* C10: in scenario S3 the Flow has exactly two Runs, a Header of one Line,
\* then a Paragraph.
C10_HeaderThenBody ==
    (pc = "emitted" /\ ~picked.trim /\ S3Input) =>
        /\ Len(flow.runs) = 2
        /\ flow.runs[1].kind = "Header" /\ Len(flow.runs[1].lines) = 1
        /\ flow.runs[2].kind = "Paragraph"

\* The rects of the spans, the extents of their columns and of their rows.
SpanRects == {spans[k].rect : k \in 1..Len(spans)}
ColExtents == {<<r.min_x, r.max_x>> : r \in SpanRects}
RowExtents == {<<r.min_y, r.max_y>> : r \in SpanRects}
Apart(E) == \A e \in E, f \in E : e = f \/ e[2] < f[1] \/ f[2] < e[1]
\* A horizontal stroke lies strictly between every two rows.
Ruled(E) ==
    \A e \in E, f \in E : e[2] < f[1] =>
        \E k \in 1..Len(strokes) : /\ strokes[k][2] = strokes[k][4]
                                   /\ strokes[k][1] # strokes[k][3]
                                   /\ e[2] < strokes[k][2] /\ strokes[k][2] < f[1]

\* Scenario S5: four boxes, 2 rows by 2 columns, a horizontal stroke between the rows.
S5Input ==
    /\ Len(spans) = 4 /\ Cardinality(SpanRects) = 4
    /\ Cardinality(ColExtents) = 2 /\ Cardinality(RowExtents) = 2
    /\ Apart(ColExtents) /\ Apart(RowExtents) /\ Ruled(RowExtents)

\* The gaps between the extents of E.
GapsOf(E) == {f[1] - e[2] : <<e, f>> \in {p \in E \X E : p[1][2] < p[2][1]}}
\* Neither the column gap nor the row gap is more than twice the other, and
\* the column gap is at least 1.0: both reach the thresholds of split.
S5Balanced ==
    \A gx \in GapsOf(ColExtents), gy \in GapsOf(RowExtents) :
        gx <= 2 * gy /\ gy <= 2 * gx /\ gx >= Unit

S6Header(header) ==
    /\ Len(spans) = 5 /\ Cardinality(SpanRects) = 5 /\ header \in 1..5
    /\ Cardinality(RowExtents) = 3 /\ Apart(RowExtents)
    /\ LET data == {spans[k].rect : k \in (1..5) \ {header}}
           cols == {<<r.min_x, r.max_x>> : r \in data}
           rows == {<<r.min_y, r.max_y>> : r \in data}
       IN /\ Cardinality(cols) = 2 /\ Apart(cols) /\ Cardinality(rows) = 2
          /\ \A r \in data : spans[header].rect.max_y < r.min_y
          /\ \A c \in cols : spans[header].rect.min_x <= c[1] /\ c[2] <= spans[header].rect.max_x

\* The number of rows above the span k, of columns left of it.
RowOf(k) == Cardinality({e \in RowExtents : e[2] < spans[k].rect.min_y})
ColOf(k) == Cardinality({e \in ColExtents : e[2] < spans[k].rect.min_x})

\* C12: scenario S6 gives a Table whose cell at (row 0, col 0) has colspan 2
\* and holds the first row's span, and whose data cells sit at (1,0), (1,1),
\* (2,0), (2,1): the first line of the section is row 0, and the run that
\* intersects both columns gets colspan 2.
C12_S6Colspan ==
    \A header \in 1..5 :
        (pc # "input" /\ ~picked.trim /\ S6Header(header)) =>
            /\ root.type = "Table"
            /\ \A k \in 1..5 :
                 \E c \in 1..Len(TableValues(root.table)) :
                    LET cell == TableValues(root.table)[c]
                    IN /\ cell.value = <<k>> /\ cell.rowspan = 1
                       /\ cell.row = RowOf(k)
                       /\ cell.col = (IF k = header THEN 0 ELSE ColOf(k))
                       /\ cell.colspan = (IF k = header THEN 2 ELSE 1)


\* Scenario S4: the span footer is an all-digit "42" in the bottom 5% of the
\* page; every other span is body text above it, and the body reaches into the
\* bottom fifth of the page, so that the gap before "42" starts there.
S4Input(footer) ==
    /\ Len(spans) >= 2 /\ footer \in 1..Len(spans)
    /\ SpanText(spans[footer]) = <<"4", "2">>
    /\ 20 * (spans[footer].rect.min_y - PageBBox.min_y) >= 19 * Height(PageBBox)
    /\ \A k \in (1..Len(spans)) \ {footer} :
          /\ ~is_number(SpanText(spans[k]))
          /\ spans[k].rect.max_y < spans[footer].rect.min_y
    /\ \E k \in (1..Len(spans)) \ {footer} :
          5 * (spans[k].rect.max_y - PageBBox.min_y) > 4 * Height(PageBBox)

\* C13: in scenario S4 with without_header_and_footer = true the trimmer
\* removes the index of "42", which is then in no leaf of the tree, and removes
\* no body span.
C13_S4FooterDropped ==
    \A footer \in 1..Len(spans) :
        (pc # "input" /\ picked.trim /\ S4Input(footer)) =>
            /\ KeptIndices = (1..Len(spans)) \ {footer}
            /\ footer \notin Range(indices(root))


\* C14: when without_header_and_footer is false the trimmer is bypassed: every
\* input box is handed to split, and every input span index appears in the
\* resulting tree.
C14_NoTrimKeepsAll ==
    (pc # "input" /\ ~picked.trim) =>
        /\ KeptIndices = 1..Len(spans)
        /\ Range(indices(root)) = 1..Len(spans)


\* C15: building the tree from an empty span list gives a Final leaf with no
\* indices, whatever the strokes and the trimming option, and the flow emitted
\* for it has no runs and no lines.
C15_EmptyInput ==
    (pc # "input" /\ spans = <<>>) =>
        /\ root = Final(<<>>)
        /\ pc = "emitted" => flow = FlowNew

C15_Witness ==
    /\ pc = "emitted" /\ spans = <<>> /\ picked.trim /\ strokes # <<>>
    /\ root.type = "Final" /\ flow.runs = <<>>


\* The span list with one more span put in before position k + 1.
InsertAt(ss, k, s) == SubSeq(ss, 1, k) \o <<s>> \o SubSeq(ss, k + 1, Len(ss))

\* The spans of the palette whose font name contains "Bold".
BoldSpans == {ClassPalette[p] : p \in {q \in 1..Len(ClassPalette) : IsBold(ClassPalette[q].font)}}

\* C16: when classify labels the spans Header, the spans with one more bold
\* span, of any text and font object and at any place, are labelled Header or
\* Mixed, never Paragraph and never Number.
C16_BoldKeepsHeader ==
    (pc = "classified" /\ class = "Header") =>
        \A s \in BoldSpans, k \in 0..Len(spans) :
            classify(InsertAt(spans, k, s)) \in {"Header", "Mixed"}

C16_Witness ==
    /\ pc = "classified" /\ class = "Header" /\ Len(spans) >= 2
    /\ \E s \in BoldSpans : classify(InsertAt(spans, 0, s)) = "Mixed"
    /\ \E s \in BoldSpans : classify(InsertAt(spans, Len(spans), s)) = "Header"


Boxes0 == [k \in 1..Len(spans) |-> [rect |-> spans[k].rect, index |-> k]]

RECURSIVE SplitShrinks(_, _)
SplitShrinks(boxes, tie) ==
    LET rec(g, cells) ==
            /\ Len(g.x) > 0 \/ Len(g.y) > 0
            /\ \A k \in 1..Len(cells) :
                  Len(cells[k]) < Len(boxes) /\ SplitShrinks(cells[k], tie)
        of(g) ==
            \/ ~g.some
            \/ Len(g.x) = 0 /\ Len(g.y) = 0
            \/ Len(g.x) > 1 /\ Len(g.y) > 1
            \/ rec(g, split_cells(g.bx, g.x, g.y, tie))
    IN Len(boxes) < 2 \/ of(split_gaps(boxes, tie))

\* Every restart of the loop of overlapping_lines on boxes, from start on,
\* moves start forward.
RECURSIVE OlAdvances(_, _, _, _)
OlAdvances(boxes, start, yc2, sumH) ==
    LET next(hits) ==
            hits = {} \/ /\ MinOf(hits) > start
                         /\ OlAdvances(boxes, MinOf(hits), Center2Y(boxes[MinOf(hits)]), sumH)
    IN next(ol_hits(boxes, start, yc2, sumH))

SumHeight(boxes) == SumSeq([k \in 1..Len(boxes) |-> Height(boxes[k].rect)])

\* C19: every slice split passes to a recursive call is strictly shorter than
\* the caller's slice, so both assertions of split hold and the recursion
\* ends, and the loop of overlapping_lines moves its start index forward on
\* every restart.
C19_SplitTerminates ==
    LET loop(boxes) == OlAdvances(boxes, 1, Center2Y(boxes[1]), SumHeight(boxes))
    IN \A tie \in {"keep", "flip"} :
          /\ SplitShrinks(Boxes0, tie)
          /\ Len(spans) > 0 => loop(sort_y(Boxes0, tie))

C19_Witness ==
    /\ pc = "built" /\ ~picked.trim /\ root.type = "Grid"
    /\ \E k \in 1..Len(root.cells) : root.cells[k].type = "Grid"
    /\ ol_hits(sort_y(Boxes0, picked.tie), 1, Center2Y(sort_y(Boxes0, picked.tie)[1]),
               SumHeight(Boxes0)) # {}


\* The loop of gaps from the k-th box on, with last_max the running maximum of
\* the ends of the boxes before it: the doubled midpoint wherever the start
\* lies at least the threshold tn/td beyond last_max.
RECURSIVE GapsFrom(_, _, _, _, _, _)
GapsFrom(boxes, k, last_max, tn, td, axis) ==
    IF k > Len(boxes) THEN <<>>
    ELSE (IF (Lo(boxes[k], axis) - last_max) * td >= tn
          THEN <<last_max + Lo(boxes[k], axis)>> ELSE <<>>)
         \o GapsFrom(boxes, k + 1, Max2(Hi(boxes[k], axis), last_max), tn, td, axis)

\* The thresholds gaps is tried with: 0.5, 2 and 4 device units.
GapThresholds == {Unit \div 2, 2 * Unit, 4 * Unit}

\* The boxes of test_the_gaps_method: x extents [0,10], [12,22], [25,35].
TestBoxes ==
    [k \in 1..3 |-> [rect |-> Rect(<<0, 12, 25>>[k] * Unit, <<10, 22, 35>>[k] * Unit, 0, 10 * Unit),
                     index |-> k]]

HorizontalYs ==
    SortedSeq({strokes[k][2] : k \in {j \in 1..Len(strokes) :
                  strokes[j][1] # strokes[j][3] /\ strokes[j][2] = strokes[j][4]}})

\* The clusters that hold the value y.
ClustersOf(y) == {c \in 1..Len(hlines) : hlines[c][1] <= y /\ y <= hlines[c][2]}

\* C21: dedup over ascending coordinates gives ordered (start, end) clusters;
\* every input value is in exactly one cluster, every value of a cluster is
\* less than 10 above its predecessor in the cluster, and a later cluster
\* starts at least 10 above the end of the one before; 1, 5, 8, 12, 25, 28
\* give (1, 12), (25, 28).
C21_DedupClusters ==
    LET ok(ys) ==
            /\ \A c \in 1..Len(hlines) :
                  /\ hlines[c][1] <= hlines[c][2]
                  /\ {hlines[c][1], hlines[c][2]} \subseteq Range(ys)
            /\ \A c \in 1..(Len(hlines) - 1) : hlines[c][2] + 10 * Unit <= hlines[c + 1][1]
            /\ \A k \in 1..Len(ys) : Cardinality(ClustersOf(ys[k])) = 1
            /\ \A k \in 2..Len(ys) :
                  ClustersOf(ys[k - 1]) = ClustersOf(ys[k]) => ys[k] < ys[k - 1] + 10 * Unit
    IN /\ dedup(<<1 * Unit, 5 * Unit, 8 * Unit, 12 * Unit, 25 * Unit, 28 * Unit>>)
            = << <<1 * Unit, 12 * Unit>>, <<25 * Unit, 28 * Unit>> >>
       /\ pc = "analyzed" => ok(HorizontalYs)

\* A chained cluster wider than 10, and a second cluster.
C21_Witness ==
    /\ pc = "analyzed" /\ Len(hlines) = 2
    /\ hlines[1][2] - hlines[1][1] > 10 * Unit


\* The tag the promotion rule gives a Grid with these splits and children.
PromotedTag(g) ==
    IF Len(g.y) = 0 THEN (IF AllAtMostLine(g.cells) THEN "Line" ELSE "Complex")
    ELSE IF Len(g.x) = 0 THEN (IF AllAtMostLine(g.cells) THEN "Paragraph" ELSE "Complex")
    ELSE "Complex"

\* The Grid nodes of the tree.
Grids == {g \in Nodes(root) : g.type = "Grid"}

\* C22: in every tree the build produces every Grid carries the tag of the
\* promotion rule (no y-splits: Line if all children are at most Line, else
\* Complex; no x-splits: Paragraph if all children are at most Line, else
\* Complex; both: Complex), so that a Grid tagged Paragraph has no x-splits
\* and only Final or Line-tagged children.
C22_TagRule ==
    (pc # "input") =>
        \A g \in Grids :
            /\ g.tag = PromotedTag(g)
            /\ g.tag = "Paragraph" =>
                 /\ Len(g.x) = 0
                 /\ \A k \in 1..Len(g.cells) :
                       g.cells[k].type = "Final" \/ g.cells[k].tag = "Line"


\* C22 as it holds: every Grid carries the tag of the promotion rule, except
\* that a Grid with y-splits only, all of whose children are Final leaves, may
\* be tagged Complex (the Grid the table detector wraps its vertical parts in);
\* every Grid tagged Paragraph has no x-splits and only Final or Line-tagged
\* children.
C22_TagRuleSplit ==
    (pc # "input") =>
        \A g \in Grids :
            /\ g.tag \in {PromotedTag(g), "Complex"}
            /\ g.tag # PromotedTag(g) =>
                 /\ Len(g.x) = 0 /\ Len(g.y) > 0
                 /\ \A k \in 1..Len(g.cells) : g.cells[k].type = "Final"
            /\ g.tag = "Paragraph" =>
                 /\ Len(g.x) = 0
                 /\ \A k \in 1..Len(g.cells) :
                       g.cells[k].type = "Final" \/ g.cells[k].tag = "Line"

\* A tree with a Paragraph Grid that has a Line Grid and a Final leaf as children.
C22_Witness ==
    /\ pc = "built"
    /\ \E g \in Grids :
          /\ g.tag = "Paragraph"
          /\ \E k \in 1..Len(g.cells) : g.cells[k].type = "Grid" /\ g.cells[k].tag = "Line"
          /\ \E k \in 1..Len(g.cells) : g.cells[k].type = "Final"


\* The lines of the root with left_margin = region.min_x + 0.5 * line_height:
\* for every line whether it starts at or right of the margin.
RightOf(lines, ps) ==
    [k \in 1..Len(lines) |->
        2 * Len(ps) * (lines[k].bbox.min_x - MinOf({lines[j].bbox.min_x : j \in 1..Len(lines)}))
            >= SumSeq([j \in 1..Len(ps) |-> Height(ps[j].rect)])]

\* The lines at which a Run starts: the first one and every later line whose
\* side of the margin equals the convention.
RunStarts(right) ==
    LET convention == Cardinality({k \in DOMAIN right : ~right[k]})
                        > Cardinality({k \in DOMAIN right : right[k]})
    IN {1} \cup {k \in 2..Len(right) : right[k] = convention}

\* The Runs are the child lines cut at the starts, every line one Line, in
\* order (a Line is known by the word that starts where the child line starts).
RunsCutAt(lines, starts) ==
    /\ Len(flow.runs) = Cardinality(starts)
    /\ \A r \in 1..Len(flow.runs) :
          LET first == SortedSeq(starts)[r]
              next == IF r < Len(flow.runs) THEN SortedSeq(starts)[r + 1] ELSE Len(lines) + 1
          IN /\ Len(flow.runs[r].lines) = next - first
             /\ \A j \in 1..Len(flow.runs[r].lines) :
                   \E w \in 1..Len(flow.runs[r].lines[j]) :
                      /\ flow.runs[r].lines[j][w].text # <<>>
                      /\ flow.runs[r].lines[j][w].x = lines[first + j - 1].bbox.min_x

\* C23: for a Paragraph Grid the emitter starts a new Run exactly at every
\* non-first line whose (min_x >= left_margin) equals the convention (more
\* lines left of the margin than at or right of it), continues the Run
\* otherwise, and emits all lines in order; lines starting at 20, 0, 0 with
\* line height 10 give one Paragraph Run of three Lines.
C23_ParagraphRuns ==
    (pc = "emitted" /\ root.type = "Grid" /\ root.tag = "Paragraph") =>
        /\ RunsCutAt(para_lines(root.cells, spans),
                     RunStarts(RightOf(para_lines(root.cells, spans),
                                       SpansAt(indices(root), spans))))
        /\ [k \in 1..Len(spans) |-> spans[k].rect.min_x] = <<2000, 0, 0>> =>
              /\ Len(flow.runs) = 1 /\ flow.runs[1].kind = "Paragraph"
              /\ Len(flow.runs[1].lines) = 3


\* The three lines starting at 20, 0, 0, emitted as one Run of three Lines.
C23_Witness ==
    /\ pc = "emitted" /\ ~picked.trim
    /\ root.type = "Grid" /\ root.tag = "Paragraph"
    /\ [k \in 1..Len(spans) |-> spans[k].rect.min_x] = <<2000, 0, 0>>
    /\ Len(flow.runs) = 1 /\ Len(flow.runs[1].lines) = 3


\* The region of the whole page goes to the table detector.
Split2AtRoot ==
    LET of(g) == g.some /\ Len(g.x) > 1 /\ Len(g.y) > 1
    IN ~picked.trim /\ Len(spans) >= 2 /\ of(split_gaps(Boxes0, picked.tie))

\* The lines the table detector forms of the page: (tag, y, line).
PageLines ==
    LET lines(raw) == [k \in 1..Len(raw) |-> build_line(sort_x(raw[k], picked.tie), spans)]
        of(by) == lines(raw_lines(by, 2, vert(by[1].rect), <<by[1]>>))
    IN of(sort_y(Boxes0, picked.tie))

\* The rows of the Table cells of the tree that hold the index i.
RowsOf(i) ==
    {c.row : c \in UNION {Range(TableValues(t.table)) \cap {c \in Range(TableValues(t.table)) :
                              i \in Range(c.value)} : t \in {n \in Nodes(root) : n.type = "Table"}}}

\* A horizontal ruling (the middle of a cluster) lies strictly between a and b.
RulingBetween(a, b) ==
    \E h \in 1..Len(analyze_hlines(strokes)) :
        /\ 2 * a < analyze_hlines(strokes)[h][1] + analyze_hlines(strokes)[h][2]
        /\ 2 * b > analyze_hlines(strokes)[h][1] + analyze_hlines(strokes)[h][2]

\* Two consecutive lines of one table section with a ruling between them.
RuledPairs ==
    LET in(ls) == {k \in 1..(Len(ls) - 1) :
                     /\ ls[k].tag # "Text" /\ ls[k + 1].tag # "Text"
                     /\ RulingBetween(ls[k].y.end, ls[k + 1].y.start)}
    IN in(PageLines)

\* C24: when a horizontal ruling lies strictly between two consecutive lines of
\* a table section, the two lines land in different rows of the Table, however
\* small the gap: every index of both lines is in a cell, and no row holds
\* indices of both.
C24_RuledRows ==
    (pc = "built" /\ Split2AtRoot) =>
        LET idx(l) == UNION {Range(l.line[r].parts) : r \in 1..Len(l.line)}
            apart(a, b) == /\ \A i \in idx(a) \cup idx(b) : RowsOf(i) # {}
                           /\ \A i \in idx(a), j \in idx(b) : RowsOf(i) \cap RowsOf(j) = {}
            ok(ls) == \A k \in RuledPairs : apart(ls[k], ls[k + 1])
        IN ok(PageLines)

\* C25: in the vertical pass of the trimmer the top candidate is the first gap
\* of the vertical gap list whenever it starts in the top 20% of the page, and
\* the bottom candidate is the last gap of the list whenever it starts in the
\* bottom 20% of the page, whatever the first gap is.
C25_TopBottomIndependent ==
    (pc # "input" /\ picked.trim /\ Len(spans) >= 2) =>
        LET h == PageBBox.max_y - PageBBox.min_y
            top(g) == 5 * g.a < 5 * PageBBox.min_y + h
            bottom(g) == 5 * g.a > 5 * PageBBox.min_y + 4 * h
            ok(gl, r) == Len(gl) > 0 =>
                /\ top(gl[1]) => r.first = gl[1].idx
                /\ bottom(gl[Len(gl)]) => r.last = gl[Len(gl)].idx
            of(by) == ok(gap_list(by, "y"), top_bottom_gap(by, PageBBox))
        IN of(sort_y(Boxes0, picked.tie))

\* The font objects of the spans that carry one, in order.
FontsOf(ss) ==
    LET of(fonted) == [k \in 1..Len(fonted) |-> fonted[k].font]
    IN of(SelectSeq(ss, LAMBDA s : s.font # NoFont))

\* C26: classify is the decision table on (numeric, bold, uniform) in priority
\* order.  Number when there is a span, every span's text is non-empty ASCII
\* digits and every font object is the first one; otherwise Header when there
\* is a font-bearing span, every font name contains "Bold" and every font
\* object is the first one; otherwise Paragraph when some font-bearing span is
\* not bold (bold False or Maybe); otherwise Mixed.  A single span is always
\* uniform and an empty collection is Mixed.
C26_DecisionTable ==
    pc = "classified" =>
        LET table(allNum, allBold, someLight, same) ==
                IF allNum /\ same THEN "Number"
                ELSE IF allBold /\ same THEN "Header"
                ELSE IF someLight THEN "Paragraph"
                ELSE "Mixed"
            of(fs) == table(Len(spans) > 0 /\ \A k \in 1..Len(spans) : is_number(SpanText(spans[k])),
                            Len(fs) > 0 /\ \A k \in 1..Len(fs) : IsBold(fs[k]),
                            \E k \in 1..Len(fs) : ~IsBold(fs[k]),
                            \A k \in 1..Len(fs) : fs[k] = fs[1])
            one(s) == IF is_number(SpanText(s)) THEN "Number"
                      ELSE IF s.font = NoFont THEN "Mixed"
                      ELSE IF IsBold(s.font) THEN "Header" ELSE "Paragraph"
        IN /\ class = of(FontsOf(spans))
           /\ Len(spans) = 0 => class = "Mixed"
           /\ Len(spans) = 1 => class = one(spans[1])

\* A single bold span with a number as text: uniform by the extra true, and
\* Number before Header.
C26_Witness ==
    /\ pc = "classified" /\ Len(spans) = 1
    /\ IsBold(spans[1].font) /\ is_number(SpanText(spans[1]))
    /\ class = "Number"

\* The Table nodes of the tree.
Tables == {n \in Nodes(root) : n.type = "Table"}

\* C27: every row index at which the table detector writes or looks up a cell
\* is smaller than the number of rows the Table was created with, also in
\* sections in which no line is combined with its predecessor: no set_cell of
\* any table section falls outside the grid.
C27_RowsInTable ==
    pc # "input" => \A t \in Tables : ~t.table.oob

\* C28: every Word returned by concat_text has non-empty text built from at
\* least one glyph, also when the buffer passed in is non-empty and ends with a
\* non-whitespace character.
C28_WordsNonEmpty ==
    tpc = "done" =>
        \A k \in 1..Len(words) : Len(words[k].text) > 0 /\ Len(words[k].chars) > 0

\* C29: every Run of the Flow contains at least one Line and every Line at
\* least one Word, whatever the tree (Final, Line, Paragraph and Complex
\* branches), also for paragraphs with lines whose spans are all whitespace.
C29_RunsNonEmpty ==
    pc = "emitted" =>
        \A r \in 1..Len(flow.runs) :
            /\ Len(flow.runs[r].lines) > 0
            /\ \A l \in 1..Len(flow.runs[r].lines) : Len(flow.runs[r].lines[l]) > 0

\* The table sections of the lines: the maximal runs of lines that are not Text.
SectionsOf(ls) ==
    {ij \in (1..Len(ls)) \X (1..Len(ls)) :
        /\ ij[1] <= ij[2]
        /\ \A k \in ij[1]..ij[2] : ls[k].tag # "Text"
        /\ ij[1] = 1 \/ ls[ij[1] - 1].tag = "Text"
        /\ ij[2] = Len(ls) \/ ls[ij[2] + 1].tag = "Text"}

\* The runs of the lines i..j and the columns inferred from them.
SectionColumns(ls, i, j) ==
    LET of(runs) == [runs |-> runs, columns |-> sort_columns(infer_columns(runs, <<>>))]
    IN of(Flatten([k \in 1..(j - i + 1) |-> ls[i + k - 1].line]))

\* C30: after the column inference over a table section every run of every
\* line of the section intersects at least one of the columns, the columns are
\* pairwise non-intersecting, and the columns a run intersects are a contiguous
\* range of indices.
C30_ColumnsCoverRuns ==
    (pc = "built" /\ Split2AtRoot) =>
        LET hit(run, cs) == {c \in 1..Len(cs) : Overlap(run.x, cs[c])}
            apart(cs) == \A a \in 1..Len(cs), b \in 1..Len(cs) : a # b => ~Overlap(cs[a], cs[b])
            range(S) == S # {} /\ S = MinOf(S)..MaxOf(S)
            ok(sc) == /\ apart(sc.columns)
                      /\ \A r \in 1..Len(sc.runs) : range(hit(sc.runs[r], sc.columns))
            of(ls) == \A ij \in SectionsOf(ls) : ok(SectionColumns(ls, ij[1], ij[2]))
        IN of(PageLines)

\* A section in which a run tightened a column and a run spans two columns.
C30_Witness ==
    /\ pc = "built" /\ Split2AtRoot
    /\ LET wide(sc) == \E r \in 1..Len(sc.runs) :
                           Cardinality({c \in 1..Len(sc.columns) :
                                           Overlap(sc.runs[r].x, sc.columns[c])}) > 1
           tight(sc) == \E r \in 1..Len(sc.runs) : \A c \in 1..Len(sc.columns) :
                           sc.columns[c] # sc.runs[r].x
           in(ls) == \E ij \in SectionsOf(ls) :
                        /\ wide(SectionColumns(ls, ij[1], ij[2]))
                        /\ tight(SectionColumns(ls, ij[1], ij[2]))
       IN in(PageLines)

=============================================================================
